---------------------------- MODULE Spec2Model ----------------------------
(***************************************************************************)
(* Instagram story loader: the interactive Express server (src/server.js)  *)
(* and the stateless serverless handler (src/api/fetch-stories.js).        *)
(*                                                                         *)
(* The specifications share the variables below:                           *)
(*   Spec     one process of either deployment variant (chosen in Init):   *)
(*            the interactive server handling NReq possibly overlapping    *)
(*            requests, or one invocation of the serverless handler;       *)
(*   MapSpec  the pure item-to-URL mappings applied to every bounded feed; *)
(*   StoriesSpec  the function evaluated in the stories page applied to    *)
(*            every bounded document.                                      *)
(* Every `await` of the source is an interleaving point: an action is the  *)
(* code that runs from the resumption of one await to the next one.        *)
(***************************************************************************)
EXTENDS Integers, Sequences, FiniteSets, TLC

\* ------------------------------------------------------------- bounds
\* Requests the interactive server receives in one run.
NReq == 2
\* Items in a story feed handed to the pure mappings.
MaxItems == 2

Reqs == 1 .. NReq

\* ------------------------------------------------------ story items
\* JavaScript null, as returned by the map callbacks for an unusable item.
Null == "null"

\* A field of a story item that may be missing: has = FALSE models an
\* absent (undefined) video_versions / image_versions2.candidates.
Absent == [has |-> FALSE, list |-> <<>>]
Field(l) == [has |-> TRUE, list |-> l]

\* The url lists of video_versions entries and of image candidates.
VideoLists == { <<>>, <<"v1">>, <<"v1", "v2">>, <<"v2", "v1">> }
ImageLists == { <<>>, <<"i1">>, <<"i1", "i2">>, <<"i2", "i1">> }

Items == [video : {Absent} \cup {Field(l) : l \in VideoLists},
          image : {Absent} \cup {Field(l) : l \in ImageLists}]

SeqsUpTo(S, n) == UNION { [1 .. k -> S] : k \in 0 .. n }

\* Every feed of at most MaxItems items.
AllFeeds == SeqsUpTo(Items, MaxItems)

MapSeq(f(_), s) == [i \in 1 .. Len(s) |-> f(s[i])]
NotNull(u) == u # Null

\* Mutant of itemUrl: the image candidates are tried before the videos.
itemUrlImageFirst(item) ==
    IF item.image.has /\ Len(item.image.list) > 0
    THEN item.image.list[1]
    ELSE IF item.video.has /\ Len(item.video.list) > 0
         THEN item.video.list[1]
         ELSE Null

\* src/server.js 153-160: the callback of storyItems.map in the
\* authenticated strategy of the interactive server.
itemUrl(item) ==
    IF item.video.has /\ Len(item.video.list) > 0
    THEN item.video.list[1]
    ELSE IF item.image.has /\ Len(item.image.list) > 0
         THEN item.image.list[1]
         ELSE Null

\* Mutant of mediaUrls: the filter is missing.
mediaUrlsUnfiltered(items) == MapSeq(itemUrl, items)

\* src/server.js 153-160: storyItems.map(...).filter(url => url !== null).
mediaUrls(items) == SelectSeq(MapSeq(itemUrl, items), NotNull)

\* src/api/fetch-stories.js 115-122: the same callback in the serverless
\* handler.
fnItemUrl(item) ==
    IF item.video.has /\ Len(item.video.list) > 0
    THEN item.video.list[1]
    ELSE IF item.image.has /\ Len(item.image.list) > 0
         THEN item.image.list[1]
         ELSE Null

\* src/api/fetch-stories.js 115-122: map then filter.
fnMediaUrls(items) == SelectSeq(MapSeq(fnItemUrl, items), NotNull)


\* ------------------------------------------- scrape: captured responses
\* A value thrown by a JavaScript expression (a TypeError here).
Threw == [threw |-> TRUE, urls |-> <<>>]
Returned(l) == [threw |-> FALSE, urls |-> l]

\* src/server.js 245-252 (and 258-265): items.map(...).filter(...) of the
\* scan of captured API responses.  The image branch tests only that
\* `candidates` exists, so candidates[0].url throws on an empty list and
\* the whole map throws.
scanMap(items) ==
    IF \E i \in 1 .. Len(items) :
          /\ ~(items[i].video.has /\ Len(items[i].video.list) > 0)
          /\ items[i].image.has /\ Len(items[i].image.list) = 0
    THEN Threw
    ELSE Returned(SelectSeq(
           [i \in 1 .. Len(items) |->
              IF items[i].video.has /\ Len(items[i].video.list) > 0
              THEN items[i].video.list[1]
              ELSE IF items[i].image.has THEN items[i].image.list[1]
                   ELSE Null],
           NotNull))

\* A captured response: p1 is data.data.user.reel.items, p2 is
\* data.user.reel.items; has = FALSE when the path is missing.
NoPath == [has |-> FALSE, items |-> <<>>]
Path(items) == [has |-> TRUE, items |-> items]

\* src/server.js 238-271: the loop over apiResponses, from response i on,
\* with cur the value of storyDataFromAPI so far.  A throw inside the try
\* leaves storyDataFromAPI as it was and goes on to the next response.
RECURSIVE scanFrom(_, _, _)
scanFrom(responses, i, cur) ==
    IF i > Len(responses) THEN cur
    ELSE LET rsp == responses[i]
             m1  == scanMap(rsp.p1.items)
             c1  == IF rsp.p1.has /\ ~m1.threw THEN m1.urls ELSE cur
             m2  == scanMap(rsp.p2.items)
             c2  == IF rsp.p2.has /\ ~m2.threw THEN m2.urls ELSE c1
         IN  IF rsp.p1.has /\ m1.threw THEN scanFrom(responses, i + 1, cur)
             ELSE IF rsp.p1.has /\ Len(c1) > 0 THEN c1
             ELSE IF rsp.p2.has /\ m2.threw THEN scanFrom(responses, i + 1, c1)
             ELSE IF rsp.p2.has /\ Len(c2) > 0 THEN c2
             ELSE scanFrom(responses, i + 1, c2)

\* src/server.js 239-271: the catch at 268 is entered for some response of
\* the loop, from response i on.
RECURSIVE scanThrewFrom(_, _)
scanThrewFrom(responses, i) ==
    IF i > Len(responses) THEN FALSE
    ELSE LET rsp == responses[i]
             m1  == scanMap(rsp.p1.items)
             m2  == scanMap(rsp.p2.items)
         IN  IF rsp.p1.has /\ m1.threw THEN TRUE
             ELSE IF rsp.p1.has /\ Len(m1.urls) > 0 THEN FALSE
             ELSE IF rsp.p2.has /\ m2.threw THEN TRUE
             ELSE IF rsp.p2.has /\ Len(m2.urls) > 0 THEN FALSE
             ELSE scanThrewFrom(responses, i + 1)

\* src/server.js 238: let storyDataFromAPI = [] and the loop.
storyDataFromAPI(responses) == scanFrom(responses, 1, <<>>)

\* ---------------------------------------------------- sample inputs
ImgOnly  == [video |-> Absent, image |-> Field(<<"i1", "i2">>)]
VidImg   == [video |-> Field(<<"v1", "v2">>), image |-> Field(<<"i1">>)]
Neither  == [video |-> Field(<<>>), image |-> Absent]
EmptyImg == [video |-> Absent, image |-> Field(<<>>)]

\* Story feeds the third-party client returns to the interactive server.
ServerFeeds == { <<>>, <<Neither>>, <<EmptyImg, Neither>>, <<VidImg, Neither, ImgOnly>> }

\* Lists of captured API responses at the time of the scan.
Captures == { <<>>,
              << [p1 |-> Path(<<Neither>>), p2 |-> NoPath] >>,
              << [p1 |-> Path(<<EmptyImg>>), p2 |-> NoPath],
                 [p1 |-> NoPath, p2 |-> Path(<<VidImg, ImgOnly>>)] >> }

\* Results of the in-page evaluation (src/server.js 304-509): the urls it
\* recovered and whether it saw a story ring.  The evaluation returns at
\* once when it recovers a url, so the ring is only looked for (502-506)
\* when storyData is empty.
PageInfos == { [storyData |-> <<>>, storyRingFound |-> FALSE],
               [storyData |-> <<>>, storyRingFound |-> TRUE],
               [storyData |-> <<"p1">>, storyRingFound |-> FALSE] }

\* ------------------------------------------- scrape: the stories page
\* The src of a media element or a url matched in a script: "" is a
\* missing src, "x" a url outside the CDN, "c1" and "c2" are CDN urls.
Srcs == {"", "x", "c1", "c2"}
IsCdn(u) == u \in {"c1", "c2"}

\* An inline script: whether its content mentions video_versions or
\* image_versions2, and the CDN urls the regular expression matches in it.
Scripts == [marker : BOOLEAN, urls : SeqsUpTo({"c1", "c2"}, 2)]

Includes(list, u) == \E i \in 1 .. Len(list) : list[i] = u

\* src/server.js 527-531: videos.forEach: a CDN src is pushed.
RECURSIVE pushVideos(_, _)
pushVideos(videos, storyData) ==
    IF Len(videos) = 0 THEN storyData
    ELSE pushVideos(Tail(videos),
                    IF Head(videos) # "" /\ IsCdn(Head(videos))
                    THEN Append(storyData, Head(videos))
                    ELSE storyData)

\* src/server.js 533-537 and 547-551: a forEach that pushes a CDN url
\* unless storyData includes it already.
RECURSIVE pushNew(_, _)
pushNew(urls, storyData) ==
    IF Len(urls) = 0 THEN storyData
    ELSE pushNew(Tail(urls),
                 IF Head(urls) # "" /\ IsCdn(Head(urls))
                      /\ ~Includes(storyData, Head(urls))
                 THEN Append(storyData, Head(urls))
                 ELSE storyData)

\* src/server.js 540-558: the loop over the inline scripts.
RECURSIVE pushScripts(_, _)
pushScripts(scripts, storyData) ==
    IF Len(scripts) = 0 THEN storyData
    ELSE pushScripts(Tail(scripts),
                     IF Head(scripts).marker
                     THEN pushNew(Head(scripts).urls, storyData)
                     ELSE storyData)

\* src/server.js 520-560: the function evaluated in the stories page, for
\* the video elements, the img elements and the inline scripts of the
\* document.  The selector at 525 keeps the img elements with a CDN src.
evaluateStoriesPage(dom) ==
    pushScripts(dom.scripts,
                pushNew(SelectSeq(dom.images, IsCdn),
                        pushVideos(dom.videos, <<>>)))

\* The documents of the stories page, of at most two videos, two images
\* and one script.
Doms == [videos : SeqsUpTo(Srcs, 2), images : SeqsUpTo(Srcs, 2),
         scripts : SeqsUpTo(Scripts, 1)]

\* Results of the scan of the stories page (src/server.js 520-560): of a
\* document without media and of one with a video and an image.
StoriesPages ==
    { evaluateStoriesPage(dom) :
        dom \in { [videos |-> <<>>, images |-> <<"x">>, scripts |-> <<>>],
                  [videos |-> <<"c1">>, images |-> <<"c1", "c2">>, scripts |-> <<>>] } }

\* ------------------------------------------------------------ state
VARIABLES
    deployment,  \* "server" | "fn" | "map" | "stories": which program this run is
    env,         \* process.env.IG_USERNAME / IG_PASSWORD ("" when unset)
    igClient,    \* server.js 17: 0 is null, r the client request r created
    isLoggedIn,  \* server.js 18
    sessionFile, \* ig-session.json: "none" | "saved" | "corrupt"
    browser,     \* server.js 22: 0 is null, n the n-th launched instance
    launched,    \* browser instances launched so far
    req,         \* per request of the interactive server: its locals
    fn,          \* the serverless invocation: its locals
    shutdown,    \* server.js 609-627: "no" | "serverClose" | "browserClose" | "exit"
    closedBrowsers, \* the browser instances browser.close() was called on
    mapIn,       \* MapSpec, StoriesSpec: the input handed to the function
    mapOut       \* MapSpec, StoriesSpec: what the function returned

vars == <<deployment, env, igClient, isLoggedIn, sessionFile, browser,
          launched, req, fn, shutdown, closedBrowsers, mapIn, mapOut>>

serverGlobals == <<igClient, isLoggedIn, sessionFile, browser, launched,
                   shutdown, closedBrowsers>>

\* Values of a credential field: "" is missing or empty, "bad" is one
\* Instagram rejects at login.
NoCred == [username |-> "", password |-> ""]

\* The request bodies the server is sent.
BodyCreds == { <<"", "">>, <<"ok", "">>, <<"", "ok">>, <<"ok", "ok">>, <<"bad", "bad">> }
Bodies == { [username |-> u, igUsername |-> c[1], igPassword |-> c[2]] :
            u \in BOOLEAN, c \in BodyCreds }

\* The configured environments.
Envs == { [IG_USERNAME |-> "", IG_PASSWORD |-> ""],
          [IG_USERNAME |-> "env", IG_PASSWORD |-> ""],
          [IG_USERNAME |-> "env", IG_PASSWORD |-> "env"] }

\* ig.account.login can only succeed with credentials Instagram accepts.
Accepted(c) == c.username \notin {"", "bad"} /\ c.password \notin {"", "bad"}

NewReq == [pc |-> "new", body |-> [username |-> FALSE, igUsername |-> "", igPassword |-> ""],
           credentials |-> NoCred, concurrent |-> {}, init |-> {}, ev |-> {},
           resp |-> <<>>,
           page |-> "null", pageState |-> "none", closeCalls |-> 0,
           storyItems |-> <<>>, found |-> <<>>]

\* The body of a request to the serverless handler: req.body is undefined
\* ("none"), a string that JSON.parse accepts or rejects, or an object.
FnBodies == { [kind |-> k, parses |-> p, username |-> b.username,
               igUsername |-> b.igUsername, igPassword |-> b.igPassword] :
              k \in {"none", "string", "object"}, p \in BOOLEAN, b \in Bodies }

\* The messages of the errors a failed login throws ("" is an error
\* without a message).
LoginErrors == { "", "ECONNRESET",
                 "challenge_required", "bad_password", "400 Bad Request",
                 "400 Bad Request; challenge_required",
                 "400 Bad Request; bad_password",
                 "bad_password; challenge_required",
                 "400 Bad Request; bad_password; challenge_required" }

\* String.prototype.includes on those messages: the messages that contain
\* the substring sub.
MessageIncludes(msg, sub) ==
    CASE sub = "challenge_required" ->
           msg \in { "challenge_required", "400 Bad Request; challenge_required",
                     "bad_password; challenge_required",
                     "400 Bad Request; bad_password; challenge_required" }
      [] sub = "bad_password" ->
           msg \in { "bad_password", "400 Bad Request; bad_password",
                     "bad_password; challenge_required",
                     "400 Bad Request; bad_password; challenge_required" }
      [] sub = "400" ->
           msg \in { "400 Bad Request", "400 Bad Request; challenge_required",
                     "400 Bad Request; bad_password",
                     "400 Bad Request; bad_password; challenge_required" }
      [] OTHER -> FALSE

IdleFn == [pc |-> "new", method |-> "POST",
           body |-> [kind |-> "none", parses |-> FALSE, username |-> FALSE,
                     igUsername |-> "", igPassword |-> ""],
           resp |-> <<>>, ev |-> {}, storyItems |-> <<>>, loginError |-> "none"]

NoOut == [by |-> "none", mapped |-> <<>>, urls |-> <<>>, threw |-> FALSE]

Response(status, msg, media) == [status |-> status, msg |-> msg, media |-> media]

\* --------------------------------------- interactive server: helpers
\* The program points from the resumption of newPage to the response.  The
\* code run there touches only the request's own page and locals, so it
\* commutes with every step of another request: such a request is run to
\* its response before another request takes a step.  In the same way a
\* handler that has sent its response returns (Return) before another
\* request takes a step.
PageLocal == {"setup", "goto", "isLoginPage", "closeLogin", "closeApi", "userId",
              "pageInfo", "storiesGoto", "storiesEval", "closeStories",
              "closeFinal", "closeCatch", "done"}

\* Request r of the interactive server is suspended at the await p and its
\* continuation is the next to run.
At(r, p) ==
    /\ deployment = "server"
    /\ shutdown # "exit"
    /\ req[r].pc = p
    /\ \A q \in Reqs \ {r} : req[q].pc \notin PageLocal

\* req with request r's locals changed to rec.
Put(r, rec) == [req EXCEPT ![r] = rec]

\* res.status(status).json(...): one more response sent for the request.
Respond(rec, status, msg, media) ==
    [rec EXCEPT !.resp = Append(@, Response(status, msg, media)), !.pc = "done"]

\* Mutant of credentialsOf: each field falls back to its environment
\* variable on its own.
credentialsOfPerField(b, e) ==
    LET u == IF b.igUsername # "" THEN b.igUsername ELSE e.IG_USERNAME
        p == IF b.igPassword # "" THEN b.igPassword ELSE e.IG_PASSWORD
    IN  IF u # "" /\ p # "" THEN [username |-> u, password |-> p] ELSE NoCred

\* src/server.js 118-120: the credential set of a request.
credentialsOf(b, e) ==
    IF b.igUsername # "" /\ b.igPassword # ""
    THEN [username |-> b.igUsername, password |-> b.igPassword]
    ELSE IF e.IG_USERNAME # "" /\ e.IG_PASSWORD # ""
         THEN [username |-> e.IG_USERNAME, password |-> e.IG_PASSWORD]
         ELSE NoCred

\* Mutant of EnterScrape: there is no fallback, the error is answered
\* directly (as the serverless handler does).
EnterScrapeAnswers500(rec) == Respond(rec, 500, "error", <<>>)

\* src/server.js 181-185 and 24-38: the scrape strategy starts; getBrowser
\* launches a browser when the process-wide variable is null, and
\* otherwise newPage is called on the shared one.
EnterScrape(rec) ==
    IF browser = 0
    THEN [rec EXCEPT !.pc = "launch", !.ev = @ \cup {"scrape", "launch"}]
    ELSE [rec EXCEPT !.pc = "newPage", !.ev = @ \cup {"scrape"}]

\* Mutant of Catch: the outer catch answers without closing the page.
CatchNoClose(rec) == Respond(rec, 500, "error", <<>>)

\* src/server.js 590-604: the outer catch.  An open page is closed first
\* (the close is awaited, its own error ignored), then 500 is sent.
Catch(rec) ==
    IF rec.page # "null"
    THEN [rec EXCEPT !.pc = "closeCatch", !.closeCalls = @ + 1]
    ELSE Respond(rec, 500, "error", <<>>)

\* page.close() is called and awaited at program point p.
CallClose(rec, p) == [rec EXCEPT !.pc = p, !.closeCalls = @ + 1]

\* src/server.js 138: igClient.user.getIdByUsername(username) is called.
CallGetId(rec) == [rec EXCEPT !.pc = "getId"]

\* ------------------------------- interactive server: authenticated path
\* Mutant of handle: the username test is missing.
handleNoUsernameTest(rec, b) ==
    LET rc == [rec EXCEPT !.credentials = credentialsOf(b, env)] IN
    IF rc.credentials = NoCred THEN EnterScrape(rc)
    ELSE IF igClient = 0 \/ ~isLoggedIn
         THEN [rc EXCEPT !.pc = "readFile", !.ev = @ \cup {"init"}]
         ELSE CallGetId([rc EXCEPT !.ev = @ \cup {"reuse"}])

\* src/server.js 112-135, 181-185: the handler's code up to its first
\* await, for body b: the username test, the credential set, and the choice
\* between client initialisation, the cached client and the scrape
\* strategy.  (The test at 68 cannot succeed: a credential set has both
\* fields non-empty.)
handle(rec, b) ==
    LET rc == [rec EXCEPT !.credentials = credentialsOf(b, env)] IN
    IF ~b.username
    THEN Respond(rec, 400, "Username is required", <<>>)
    ELSE IF rc.credentials = NoCred THEN EnterScrape(rc)
    ELSE IF igClient = 0 \/ ~isLoggedIn
         THEN [rc EXCEPT !.pc = "readFile", !.ev = @ \cup {"init"}]
         ELSE CallGetId([rc EXCEPT !.ev = @ \cup {"reuse"}])

\* src/server.js 111: a request arrives, while the server listens, and its
\* handler runs to its first await.  Requests are numbered in arrival order.
Receive(r) ==
    /\ At(r, "new")
    /\ shutdown = "no"
    /\ \A q \in Reqs : q < r => req[q].pc # "new"
    /\ \E b \in Bodies :
         req' = Put(r, handle([req[r] EXCEPT !.body = b,
                   !.concurrent = {q \in Reqs : req[q].pc \notin {"new", "gone"}}], b))
    /\ UNCHANGED <<deployment, env, serverGlobals, fn, mapIn, mapOut>>

\* Mutant of LoadSession: a file that fails to parse is removed at once.
LoadSessionRemovesCorrupt(r) ==
    /\ At(r, "readFile")
    /\ req' = Put(r,
         IF sessionFile = "saved"
         THEN [req[r] EXCEPT !.pc = "currentUser", !.init = @ \cup {"loaded"}]
         ELSE [req[r] EXCEPT !.pc = "login",
                 !.init = @ \cup (IF sessionFile = "corrupt"
                                  THEN {"parseFailed"} ELSE {"noFile"})])
    /\ sessionFile' = IF sessionFile = "corrupt" THEN "none" ELSE sessionFile
    /\ UNCHANGED <<deployment, env, igClient, isLoggedIn, browser, launched,
                   shutdown, closedBrowsers, fn, mapIn, mapOut>>

\* src/server.js 52-64, 77-95: loadSession resumes.  readFile throws when
\* there is no file, JSON.parse or deserialize throw on a corrupt one: both
\* return false and a fresh login is started.  A loaded session is
\* validated with currentUser.
LoadSession(r) ==
    /\ At(r, "readFile")
    /\ req' = Put(r,
         IF sessionFile = "saved"
         THEN [req[r] EXCEPT !.pc = "currentUser", !.init = @ \cup {"loaded"}]
         ELSE [req[r] EXCEPT !.pc = "login",
                 !.init = @ \cup (IF sessionFile = "corrupt"
                                  THEN {"parseFailed"} ELSE {"noFile"})])
    /\ UNCHANGED <<deployment, env, serverGlobals, fn, mapIn, mapOut>>

\* Mutant of ReturnClient: isLoggedIn is not set.
ReturnClientNoFlag(r, rec) ==
    /\ isLoggedIn' = isLoggedIn
    /\ igClient' = r
    /\ req' = Put(r, CallGetId([rec EXCEPT !.init = {}, !.ev = @ \cup {"client"}]))

\* src/server.js 97-98, 128-138: initInstagramClient sets isLoggedIn and
\* returns its client, the handler stores it in igClient and calls the id
\* lookup.  The locals of initInstagramClient are gone.
ReturnClient(r, rec) ==
    /\ isLoggedIn' = TRUE
    /\ igClient' = r
    /\ req' = Put(r, CallGetId([rec EXCEPT !.init = {}, !.ev = @ \cup {"client"}]))

\* Mutant of CurrentUser: an expired session's file is removed before the
\* new login.
CurrentUserRemovesExpired(r) ==
    /\ At(r, "currentUser")
    /\ \/ /\ ReturnClient(r, req[r])
          /\ UNCHANGED <<sessionFile, browser, launched, shutdown, closedBrowsers>>
       \/ /\ req' = Put(r, [req[r] EXCEPT !.pc = "login", !.init = @ \cup {"expired"}])
          /\ sessionFile' = "none"
          /\ UNCHANGED <<igClient, isLoggedIn, browser, launched, shutdown, closedBrowsers>>
    /\ UNCHANGED <<deployment, env, fn, mapIn, mapOut>>

\* src/server.js 86-98: ig.account.currentUser() resumes.  On success the
\* client is returned; on failure the session has expired and login is
\* called again.
CurrentUser(r) ==
    /\ At(r, "currentUser")
    /\ \/ /\ ReturnClient(r, req[r])
          /\ UNCHANGED <<sessionFile, browser, launched, shutdown, closedBrowsers>>
       \/ /\ req' = Put(r, [req[r] EXCEPT !.pc = "login", !.init = @ \cup {"expired"}])
          /\ UNCHANGED serverGlobals
    /\ UNCHANGED <<deployment, env, fn, mapIn, mapOut>>

\* src/server.js 82-83, 92-93, 99-103: ig.account.login resumes.  On
\* success saveSession is called; on failure the catch calls fs.unlink.
Login(r) ==
    /\ At(r, "login")
    /\ \/ /\ Accepted(req[r].credentials)
          /\ req' = Put(r, [req[r] EXCEPT !.pc = "writeFile"])
       \/ /\ req' = Put(r, [req[r] EXCEPT !.pc = "unlink"])
    /\ UNCHANGED <<deployment, env, serverGlobals, fn, mapIn, mapOut>>

\* src/server.js 41-49, 97-98: saveSession resumes (a failed serialize or
\* writeFile is caught and only logged: the file is left as it was), and
\* the client is returned.
SaveSession(r) ==
    /\ At(r, "writeFile")
    /\ \/ sessionFile' = "saved"
       \/ sessionFile' = sessionFile
    /\ ReturnClient(r, req[r])
    /\ UNCHANGED <<deployment, env, browser, launched, shutdown, closedBrowsers,
                   fn, mapIn, mapOut>>

\* src/server.js 102-107, 128-134: fs.unlink resumes (its error ignored:
\* the file is left as it was), initInstagramClient returns null, which is
\* stored in igClient, and 401 is sent.
Unlink(r) ==
    /\ At(r, "unlink")
    /\ \/ sessionFile' = "none"
       \/ sessionFile' = sessionFile
    /\ igClient' = 0
    /\ req' = Put(r, Respond([req[r] EXCEPT !.init = {}, !.ev = @ \cup {"loginFailed"}],
                             401, "Failed to login to Instagram", <<>>))
    /\ UNCHANGED <<deployment, env, isLoggedIn, browser, launched, shutdown,
                   closedBrowsers, fn, mapIn, mapOut>>

\* src/server.js 138-143, 172-185: getIdByUsername resumes.  On success
\* igClient.feed.userStory reads the process-wide igClient again, which
\* throws when another request has stored null there meanwhile; every
\* throw is caught at 172 and the scrape strategy starts.
GetId(r) ==
    /\ At(r, "getId")
    /\ \/ /\ igClient # 0
          /\ req' = Put(r, [req[r] EXCEPT !.pc = "items"])
       \/ req' = Put(r, EnterScrape([req[r] EXCEPT !.ev = @ \cup {"apiError"}]))
    /\ UNCHANGED <<deployment, env, serverGlobals, fn, mapIn, mapOut>>

\* Mutant of authResult: the test for an empty feed is missing, so an empty
\* feed is answered like one whose items are all unusable.
authResultNoEmptyTest(rec, items) ==
    IF Len(mediaUrls(items)) = 0
    THEN Respond(rec, 404, "No media URLs found in stories.", <<>>)
    ELSE Respond(rec, 200, "success", mediaUrls(items))

\* src/server.js 145-170: the answer of the authenticated strategy to the
\* feed's items.
authResult(rec, items) ==
    IF Len(items) = 0
    THEN Respond(rec, 404, "No active stories found for this user.", <<>>)
    ELSE IF Len(mediaUrls(items)) = 0
         THEN Respond(rec, 404, "No media URLs found in stories.", <<>>)
         ELSE Respond(rec, 200, "success", mediaUrls(items))

\* src/server.js 143-176: reelsFeed.items() resumes.
Feed(r) ==
    /\ At(r, "items")
    /\ \/ \E items \in ServerFeeds :
            req' = Put(r, authResult([req[r] EXCEPT !.storyItems = items,
                                                    !.ev = @ \cup {"feed"}], items))
       \/ req' = Put(r, EnterScrape([req[r] EXCEPT !.ev = @ \cup {"apiError"}]))
    /\ UNCHANGED <<deployment, env, serverGlobals, fn, mapIn, mapOut>>

\* ------------------------------------- interactive server: scrape path
\* Mutant of Launch: the instance is stored only while the process-wide
\* variable is still null.
LaunchKeepsFirst(r) ==
    /\ At(r, "launch")
    /\ \/ /\ launched' = launched + 1
          /\ browser' = IF browser = 0 THEN launched + 1 ELSE browser
          /\ req' = Put(r, [req[r] EXCEPT !.pc = "newPage"])
       \/ /\ req' = Put(r, Catch(req[r]))
          /\ UNCHANGED <<browser, launched>>
    /\ UNCHANGED <<deployment, env, igClient, isLoggedIn, sessionFile, shutdown,
                   closedBrowsers, fn, mapIn, mapOut>>

\* src/server.js 24-38, 184-185: puppeteer.launch resumes inside
\* getBrowser; the new instance is stored in the process-wide variable and
\* newPage is called on it.  A failed launch is caught at 590 with no page.
Launch(r) ==
    /\ At(r, "launch")
    /\ \/ /\ launched' = launched + 1
          /\ browser' = launched + 1
          /\ req' = Put(r, [req[r] EXCEPT !.pc = "newPage"])
       \/ /\ req' = Put(r, Catch(req[r]))
          /\ UNCHANGED <<browser, launched>>
    /\ UNCHANGED <<deployment, env, igClient, isLoggedIn, sessionFile, shutdown,
                   closedBrowsers, fn, mapIn, mapOut>>

\* src/server.js 185-189: newPage resumes and the page is assigned; the
\* viewport and user agent calls follow.
NewPage(r) ==
    /\ At(r, "newPage")
    /\ \/ req' = Put(r, [req[r] EXCEPT !.pc = "setup", !.page = "page",
                                       !.pageState = "open", !.ev = @ \cup {"page"}])
       \/ req' = Put(r, Catch(req[r]))
    /\ UNCHANGED <<deployment, env, serverGlobals, fn, mapIn, mapOut>>

\* src/server.js 188-217: setViewport and setUserAgent resume, the response
\* observer is registered and page.goto(profileUrl) is called.
Setup(r) ==
    /\ At(r, "setup")
    /\ \/ req' = Put(r, [req[r] EXCEPT !.pc = "goto"])
       \/ req' = Put(r, Catch(req[r]))
    /\ UNCHANGED <<deployment, env, serverGlobals, fn, mapIn, mapOut>>

\* src/server.js 214-227: the navigation and the settle delay resume and
\* the login-wall probe is evaluated in the page.
Goto(r) ==
    /\ At(r, "goto")
    /\ \/ req' = Put(r, [req[r] EXCEPT !.pc = "isLoginPage"])
       \/ req' = Put(r, Catch(req[r]))
    /\ UNCHANGED <<deployment, env, serverGlobals, fn, mapIn, mapOut>>

\* src/server.js 223-298: the login-wall probe resumes.  On a login wall
\* the page is closed; otherwise the captured responses are scanned and
\* either the page is closed to answer with their urls, or the in-page
\* user-id probe is called.
IsLoginPage(r) ==
    /\ At(r, "isLoginPage")
    /\ \/ req' = Put(r, CallClose([req[r] EXCEPT !.ev = @ \cup {"loginWall"}], "closeLogin"))
       \/ \E apiResponses \in Captures :
            LET found == storyDataFromAPI(apiResponses)
                rec   == [req[r] EXCEPT !.found = found,
                            !.ev = @ \cup {"scan"} \cup
                                   (IF scanThrewFrom(apiResponses, 1)
                                    THEN {"scanThrew"} ELSE {}) \cup
                                   (IF Len(found) > 0 THEN {"scanFound"} ELSE {})]
            IN  req' = Put(r,
                  IF Len(found) > 0
                  THEN CallClose(rec, "closeApi")
                  ELSE [rec EXCEPT !.pc = "userId", !.ev = @ \cup {"eval"}])
       \/ req' = Put(r, Catch(req[r]))
    /\ UNCHANGED <<deployment, env, serverGlobals, fn, mapIn, mapOut>>

\* src/server.js 230-234: page.close() resumes on the login-wall path.
CloseLogin(r) ==
    /\ At(r, "closeLogin")
    /\ \/ req' = Put(r, Respond([req[r] EXCEPT !.pageState = "closed"],
                                401, "Instagram requires login", <<>>))
       \/ req' = Put(r, Catch(req[r]))
    /\ UNCHANGED <<deployment, env, serverGlobals, fn, mapIn, mapOut>>

\* src/server.js 273-277: page.close() resumes after a successful scan.
CloseApi(r) ==
    /\ At(r, "closeApi")
    /\ \/ req' = Put(r, Respond([req[r] EXCEPT !.pageState = "closed"],
                                200, "success", req[r].found))
       \/ req' = Put(r, Catch(req[r]))
    /\ UNCHANGED <<deployment, env, serverGlobals, fn, mapIn, mapOut>>

\* src/server.js 280-304: the user-id probe resumes and the page-state
\* evaluation is called.  A rejected page.evaluate is not inside any inner
\* try: it is caught at 590.
UserId(r) ==
    /\ At(r, "userId")
    /\ \/ req' = Put(r, [req[r] EXCEPT !.pc = "pageInfo"])
       \/ req' = Put(r, Catch([req[r] EXCEPT !.ev = @ \cup {"userIdThrew"}]))
    /\ UNCHANGED <<deployment, env, serverGlobals, fn, mapIn, mapOut>>

\* src/server.js 304-516, 574: the page-state evaluation resumes.  With a
\* story ring the stories URL is navigated to, otherwise the page is
\* closed.  A rejected page.evaluate is caught at 590.
PageInfo(r) ==
    /\ At(r, "pageInfo")
    /\ \/ \E pageInfo \in PageInfos :
            LET rec == [req[r] EXCEPT !.found = pageInfo.storyData] IN
            req' = Put(r,
                  IF pageInfo.storyRingFound
                  THEN [rec EXCEPT !.pc = "storiesGoto", !.ev = @ \cup {"stories"}]
                  ELSE CallClose(rec, "closeFinal"))
       \/ req' = Put(r, Catch([req[r] EXCEPT !.ev = @ \cup {"pageInfoThrew"}]))
    /\ UNCHANGED <<deployment, env, serverGlobals, fn, mapIn, mapOut>>

\* src/server.js 516-520, 567-574: the navigation to the stories URL and
\* its delay resume; a throw is caught at 567 and the page is closed.
StoriesGoto(r) ==
    /\ At(r, "storiesGoto")
    /\ \/ req' = Put(r, [req[r] EXCEPT !.pc = "storiesEval"])
       \/ req' = Put(r, CallClose([req[r] EXCEPT !.ev = @ \cup {"storiesThrew"}],
                                  "closeFinal"))
    /\ UNCHANGED <<deployment, env, serverGlobals, fn, mapIn, mapOut>>

\* src/server.js 520-574: the scan of the stories page resumes.
StoriesEval(r) ==
    /\ At(r, "storiesEval")
    /\ \/ \E storiesPageData \in StoriesPages :
            req' = Put(r,
                  IF Len(storiesPageData) > 0
                  THEN CallClose([req[r] EXCEPT !.found = storiesPageData],
                                 "closeStories")
                  ELSE CallClose(req[r], "closeFinal"))
       \/ req' = Put(r, CallClose([req[r] EXCEPT !.ev = @ \cup {"storiesThrew"}],
                                  "closeFinal"))
    /\ UNCHANGED <<deployment, env, serverGlobals, fn, mapIn, mapOut>>

\* src/server.js 562-574: page.close() resumes on the stories path; its
\* throw is caught by the inner catch at 567, after which the page-state
\* result (empty here) is what remains and close is called again at 574.
CloseStories(r) ==
    /\ At(r, "closeStories")
    /\ \/ req' = Put(r, Respond([req[r] EXCEPT !.pageState = "closed"],
                                200, "success", req[r].found))
       \/ req' = Put(r, CallClose([req[r] EXCEPT !.found = <<>>], "closeFinal"))
    /\ UNCHANGED <<deployment, env, serverGlobals, fn, mapIn, mapOut>>

\* Mutant of CloseFinal: the 404 is sent without returning, so the answer
\* at 587 is sent as well.
CloseFinalNoReturn(r) ==
    /\ At(r, "closeFinal")
    /\ \/ LET rec == [req[r] EXCEPT !.pageState = "closed", !.page = "null"] IN
          req' = Put(r,
                  IF Len(req[r].found) = 0
                  THEN Respond(Respond(rec, 404, "No stories found", <<>>),
                               200, "success", req[r].found)
                  ELSE Respond(rec, 200, "success", req[r].found))
       \/ req' = Put(r, Catch(req[r]))
    /\ UNCHANGED <<deployment, env, serverGlobals, fn, mapIn, mapOut>>

\* src/server.js 574-588: page.close() resumes, page is set to null and
\* the page-state result decides between 404 and 200.
CloseFinal(r) ==
    /\ At(r, "closeFinal")
    /\ \/ LET rec == [req[r] EXCEPT !.pageState = "closed", !.page = "null"] IN
          req' = Put(r,
                  IF Len(req[r].found) = 0
                  THEN Respond(rec, 404, "No stories found", <<>>)
                  ELSE Respond(rec, 200, "success", req[r].found))
       \/ req' = Put(r, Catch(req[r]))
    /\ UNCHANGED <<deployment, env, serverGlobals, fn, mapIn, mapOut>>

\* src/server.js 591-603: page.close() resumes inside the outer catch,
\* with its own error ignored, and 500 is sent.
CloseCatch(r) ==
    /\ At(r, "closeCatch")
    /\ \/ req' = Put(r, Respond([req[r] EXCEPT !.pageState = "closed"], 500, "error", <<>>))
       \/ req' = Put(r, Respond(req[r], 500, "error", <<>>))
    /\ UNCHANGED <<deployment, env, serverGlobals, fn, mapIn, mapOut>>

\* What is remembered of a request once its handler has returned.
Lasting == {"client"}

\* The handler of a request that has sent its response returns: its locals
\* are gone.
Return(r) ==
    /\ At(r, "done")
    /\ req' = Put(r, [NewReq EXCEPT !.pc = "gone", !.ev = req[r].ev \cap Lasting,
                                    !.concurrent = req[r].concurrent])
    /\ UNCHANGED <<deployment, env, serverGlobals, fn, mapIn, mapOut>>

\* src/server.js 609-627: SIGTERM or SIGINT is delivered (the two handlers
\* are the same code) and server.close is called: the server stops
\* accepting requests, the handlers in flight go on.
Signal ==
    /\ deployment = "server"
    /\ shutdown = "no"
    /\ shutdown' = "serverClose"
    /\ UNCHANGED <<deployment, env, igClient, isLoggedIn, sessionFile, browser,
                   launched, closedBrowsers, req, fn, mapIn, mapOut>>

\* src/server.js 612-616 (621-625): the callback of server.close runs once
\* the connections of the requests in flight have ended.  browser.close()
\* is called on the instance the process-wide variable refers to, if any;
\* otherwise the process exits at once.
ServerClosed ==
    /\ deployment = "server"
    /\ shutdown = "serverClose"
    /\ \A r \in Reqs : req[r].pc \in {"new", "gone"}
    /\ IF browser # 0
       THEN /\ closedBrowsers' = closedBrowsers \cup {browser}
            /\ shutdown' = "browserClose"
       ELSE /\ closedBrowsers' = closedBrowsers
            /\ shutdown' = "exit"
    /\ UNCHANGED <<deployment, env, igClient, isLoggedIn, sessionFile, browser,
                   launched, req, fn, mapIn, mapOut>>

\* src/server.js 614-616 (623-625): browser.close() resumes and the process
\* exits (a rejected close ends the process too).
Exit ==
    /\ deployment = "server"
    /\ shutdown = "browserClose"
    /\ shutdown' = "exit"
    /\ UNCHANGED <<deployment, env, igClient, isLoggedIn, sessionFile, browser,
                   launched, closedBrowsers, req, fn, mapIn, mapOut>>

ServerNext ==
    \/ Signal \/ ServerClosed \/ Exit
    \/ \E r \in Reqs :
       \/ Return(r)
       \/ Receive(r) \/ LoadSession(r) \/ CurrentUser(r) \/ Login(r)
       \/ SaveSession(r) \/ Unlink(r) \/ GetId(r) \/ Feed(r)
       \/ Launch(r) \/ NewPage(r) \/ Setup(r) \/ Goto(r) \/ IsLoginPage(r)
       \/ CloseLogin(r) \/ CloseApi(r) \/ UserId(r) \/ PageInfo(r)
       \/ StoriesGoto(r) \/ StoriesEval(r) \/ CloseStories(r)
       \/ CloseFinal(r) \/ CloseCatch(r)

ServerInit ==
    /\ deployment = "server"
    /\ env \in Envs
    /\ igClient = 0
    /\ isLoggedIn = FALSE
    /\ sessionFile \in {"none", "saved", "corrupt"}
    /\ browser = 0
    /\ launched = 0
    /\ shutdown = "no"
    /\ closedBrowsers = {}
    /\ req = [r \in Reqs |-> NewReq]
    /\ fn = IdleFn
    /\ mapIn = <<>>
    /\ mapOut = NoOut

\* ------------------------------------------------- serverless handler
FnRespond(rec, status, msg, media) ==
    [rec EXCEPT !.resp = Append(@, Response(status, msg, media)), !.pc = "done"]

\* src/api/fetch-stories.js 8-70: the handler's code up to its first
\* await (the login), for method m and body b.
fnHandle(rec, m, b) ==
    LET \* 35-46: the body the handler reads the username from
        username == b.kind # "none" /\ b.username
    IN  IF m = "GET" THEN FnRespond(rec, 200, "API endpoint is working", <<>>)
        ELSE IF m = "OPTIONS" THEN FnRespond(rec, 200, "", <<>>)
        ELSE IF m # "POST" THEN FnRespond(rec, 405, "Method not allowed", <<>>)
        ELSE IF b.kind = "string" /\ ~b.parses
             THEN FnRespond(rec, 400, "Invalid JSON in request body", <<>>)
        ELSE IF ~username
             THEN FnRespond(rec, 400, "Username is required", <<>>)
        ELSE IF env.IG_USERNAME = "" \/ env.IG_PASSWORD = ""
             THEN FnRespond(rec, 401, "Instagram credentials not configured", <<>>)
        ELSE [rec EXCEPT !.pc = "login", !.ev = @ \cup {"login"}]

\* src/api/fetch-stories.js 8: the handler is invoked.
FnInvoke ==
    /\ deployment = "fn"
    /\ fn.pc = "new"
    /\ \E m \in {"GET", "OPTIONS", "POST", "PUT"}, b \in FnBodies :
         fn' = fnHandle([fn EXCEPT !.method = m, !.body = b], m, b)
    /\ UNCHANGED <<deployment, env, serverGlobals, req, mapIn, mapOut>>

\* src/api/fetch-stories.js 134-140: the outer catch answers 500 with the
\* error's message, or with a fixed text when the message is empty.
fnCatch(rec, msg) ==
    FnRespond(rec, 500, IF msg # "" THEN msg ELSE "Failed to fetch stories", <<>>)

\* Mutant of fnLoginError: the test for 400 comes first.
fnLoginErrorGenericFirst(rec, msg) ==
    IF msg # "" /\ MessageIncludes(msg, "400")
    THEN FnRespond(rec, 401, "Instagram login failed", <<>>)
    ELSE IF msg # "" /\ MessageIncludes(msg, "challenge_required")
    THEN FnRespond(rec, 401, "Instagram requires account verification", <<>>)
    ELSE IF msg # "" /\ MessageIncludes(msg, "bad_password")
    THEN FnRespond(rec, 401, "Invalid Instagram credentials", <<>>)
    ELSE fnCatch(rec, msg)

\* src/api/fetch-stories.js 71-97: the catch around the login, for an
\* error with message msg; an error of no category is thrown again.
fnLoginError(rec, msg) ==
    IF msg # "" /\ MessageIncludes(msg, "challenge_required")
    THEN FnRespond(rec, 401, "Instagram requires account verification", <<>>)
    ELSE IF msg # "" /\ MessageIncludes(msg, "bad_password")
    THEN FnRespond(rec, 401, "Invalid Instagram credentials", <<>>)
    ELSE IF msg # "" /\ MessageIncludes(msg, "400")
    THEN FnRespond(rec, 401, "Instagram login failed", <<>>)
    ELSE fnCatch(rec, msg)

\* src/api/fetch-stories.js 69-100, 134-140: ig.account.login resumes.
FnLogin ==
    /\ deployment = "fn"
    /\ fn.pc = "login"
    /\ \/ fn' = [fn EXCEPT !.pc = "getId", !.ev = @ \cup {"client"}]
       \/ \E msg \in LoginErrors :
            fn' = fnLoginError([fn EXCEPT !.ev = @ \cup {"loginFailed"},
                                          !.loginError = msg], msg)
    /\ UNCHANGED <<deployment, env, serverGlobals, req, mapIn, mapOut>>

\* src/api/fetch-stories.js 100-105, 134-140: getIdByUsername resumes.
FnGetId ==
    /\ deployment = "fn"
    /\ fn.pc = "getId"
    /\ \/ fn' = [fn EXCEPT !.pc = "items"]
       \/ fn' = fnCatch([fn EXCEPT !.ev = @ \cup {"apiError"}], "error")
    /\ UNCHANGED <<deployment, env, serverGlobals, req, mapIn, mapOut>>

\* src/api/fetch-stories.js 107-132: the answer to the feed's items.
fnAuthResult(rec, items) ==
    IF Len(items) = 0
    THEN FnRespond(rec, 404, "No active stories found for this user.", <<>>)
    ELSE IF Len(fnMediaUrls(items)) = 0
         THEN FnRespond(rec, 404, "No media URLs found in stories.", <<>>)
         ELSE FnRespond(rec, 200, "success", fnMediaUrls(items))

\* src/api/fetch-stories.js 105-140: reelsFeed.items() resumes.
FnFeed ==
    /\ deployment = "fn"
    /\ fn.pc = "items"
    /\ \/ \E items \in AllFeeds :
            fn' = fnAuthResult([fn EXCEPT !.storyItems = items,
                                          !.ev = @ \cup {"feed"}], items)
       \/ fn' = fnCatch([fn EXCEPT !.ev = @ \cup {"apiError"}], "error")
    /\ UNCHANGED <<deployment, env, serverGlobals, req, mapIn, mapOut>>

FnNext == FnInvoke \/ FnLogin \/ FnGetId \/ FnFeed

FnInit ==
    /\ deployment = "fn"
    /\ env \in Envs
    /\ igClient = 0
    /\ isLoggedIn = FALSE
    /\ sessionFile = "none"
    /\ browser = 0
    /\ launched = 0
    /\ shutdown = "no"
    /\ closedBrowsers = {}
    /\ req = [r \in Reqs |-> NewReq]
    /\ fn = IdleFn
    /\ mapIn = <<>>
    /\ mapOut = NoOut

\* ---------------------------------------------------- specifications
Init == ServerInit \/ FnInit

Next == ServerNext \/ FnNext

\* One process of either deployment variant.
Spec == Init /\ [][Next]_vars

\* ------------------------------------------------- the pure mappings
\* src/server.js 153-160 applied to the feed.
ApplyServerMap ==
    /\ deployment = "map"
    /\ mapOut.by = "none"
    /\ mapOut' = [by |-> "server", mapped |-> MapSeq(itemUrl, mapIn),
                  urls |-> mediaUrls(mapIn), threw |-> FALSE]
    /\ UNCHANGED <<deployment, env, serverGlobals, req, fn, mapIn>>

\* src/api/fetch-stories.js 115-122 applied to the feed.
ApplyFnMap ==
    /\ deployment = "map"
    /\ mapOut.by = "none"
    /\ mapOut' = [by |-> "fn", mapped |-> MapSeq(fnItemUrl, mapIn),
                  urls |-> fnMediaUrls(mapIn), threw |-> FALSE]
    /\ UNCHANGED <<deployment, env, serverGlobals, req, fn, mapIn>>

\* src/server.js 245-252 applied to the feed as the reel items of a
\* captured response.
ApplyScanMap ==
    /\ deployment = "map"
    /\ mapOut.by = "none"
    /\ mapOut' = [by |-> "scan", mapped |-> <<>>,
                  urls |-> scanMap(mapIn).urls, threw |-> scanMap(mapIn).threw]
    /\ UNCHANGED <<deployment, env, serverGlobals, req, fn, mapIn>>

MapInit ==
    /\ deployment = "map"
    /\ env = [IG_USERNAME |-> "", IG_PASSWORD |-> ""]
    /\ igClient = 0
    /\ isLoggedIn = FALSE
    /\ sessionFile = "none"
    /\ browser = 0
    /\ launched = 0
    /\ shutdown = "no"
    /\ closedBrowsers = {}
    /\ req = [r \in Reqs |-> NewReq]
    /\ fn = IdleFn
    /\ mapIn \in AllFeeds
    /\ mapOut = NoOut

MapNext == ApplyServerMap \/ ApplyFnMap \/ ApplyScanMap

\* The item-to-URL mappings applied to every feed of at most MaxItems items.
MapSpec == MapInit /\ [][MapNext]_vars

\* ------------------------------------------- the stories-page function
\* src/server.js 520-560 applied to the document.
ApplyStoriesPage ==
    /\ deployment = "stories"
    /\ mapOut.by = "none"
    /\ mapOut' = [by |-> "stories", mapped |-> <<>>,
                  urls |-> evaluateStoriesPage(mapIn), threw |-> FALSE]
    /\ UNCHANGED <<deployment, env, serverGlobals, req, fn, mapIn>>

StoriesInit ==
    /\ deployment = "stories"
    /\ env = [IG_USERNAME |-> "", IG_PASSWORD |-> ""]
    /\ igClient = 0
    /\ isLoggedIn = FALSE
    /\ sessionFile = "none"
    /\ browser = 0
    /\ launched = 0
    /\ shutdown = "no"
    /\ closedBrowsers = {}
    /\ req = [r \in Reqs |-> NewReq]
    /\ fn = IdleFn
    /\ mapIn \in Doms
    /\ mapOut = NoOut

\* The stories-page function applied to every bounded document.
StoriesSpec == StoriesInit /\ [][ApplyStoriesPage]_vars


\* ===================================================================
\* Properties
\* ===================================================================
VideoOf(item) == IF item.video.has THEN item.video.list ELSE <<>>
ImageOf(item) == IF item.image.has THEN item.image.list ELSE <<>>
Usable(item) == Len(VideoOf(item)) > 0 \/ Len(ImageOf(item)) > 0

\* The requests of the interactive server whose handler is running or has
\* just sent its response.
Live == {r \in Reqs : deployment = "server" /\ req[r].pc \notin {"new", "gone"}}

\* C1: in the authenticated strategy of both variants the map callback
\* returns, for every item with a non-empty video list, the url of the
\* first video entry, also when image candidates are present, and for
\* every item with no video entry and a non-empty candidate list the url
\* of the first candidate.
C1_VideoThenImage ==
    mapOut.by \in {"server", "fn"} =>
       /\ Len(mapOut.mapped) = Len(mapIn)
       /\ \A i \in 1 .. Len(mapIn) :
            /\ Len(VideoOf(mapIn[i])) > 0 => mapOut.mapped[i] = VideoOf(mapIn[i])[1]
            /\ (Len(VideoOf(mapIn[i])) = 0 /\ Len(ImageOf(mapIn[i])) > 0)
                  => mapOut.mapped[i] = ImageOf(mapIn[i])[1]

\* C1 witness: the server's mapping applied to a feed whose first item has
\* two videos and an image candidate and whose second has only candidates.
C1_Witness ==
    /\ mapOut.by = "server"
    /\ Len(mapIn) = 2
    /\ Len(VideoOf(mapIn[1])) = 2 /\ Len(ImageOf(mapIn[1])) > 0
    /\ Len(VideoOf(mapIn[2])) = 0 /\ Len(ImageOf(mapIn[2])) = 2
    /\ mapOut.urls = <<VideoOf(mapIn[1])[1], ImageOf(mapIn[2])[1]>>

\* The number of usable items of a feed.
RECURSIVE CountUsable(_)
CountUsable(items) ==
    IF Len(items) = 0 THEN 0
    ELSE (IF Usable(Head(items)) THEN 1 ELSE 0) + CountUsable(Tail(items))

\* What C2 says of one run of the authenticated strategy that got the feed
\* `items` and answered with `resp`.
LeftOut(items, resp) ==
    /\ Len(resp) = 1
    /\ resp[1].status = 200 =>
          /\ Len(resp[1].media) = CountUsable(items)
          /\ \A i \in 1 .. Len(resp[1].media) : resp[1].media[i] # Null
    /\ (Len(items) > 0 /\ CountUsable(items) = 0) =>
          /\ resp[1].status = 404
          /\ resp[1].media = <<>>

\* C2: in the authenticated strategy an item with neither a non-empty
\* video list nor a non-empty candidate list is left out of the output
\* list, and a non-empty feed whose items are all left out is answered
\* with 404, never with 200 and an empty media list.
C2_UnusableLeftOut ==
    /\ \A r \in Live :
         (req[r].pc = "done" /\ "feed" \in req[r].ev)
            => LeftOut(req[r].storyItems, req[r].resp)
    /\ (deployment = "fn" /\ fn.pc = "done" /\ "feed" \in fn.ev)
            => LeftOut(fn.storyItems, fn.resp)

\* C2 witness: the server got a feed of two unusable items and answered
\* 404 "No media URLs found in stories."
C2_Witness ==
    \E r \in Live :
       /\ req[r].pc = "done" /\ "feed" \in req[r].ev
       /\ Len(req[r].storyItems) = 2
       /\ CountUsable(req[r].storyItems) = 0
       /\ req[r].resp = <<Response(404, "No media URLs found in stories.", <<>>)>>

\* C3: with a logged-in client and a feed of zero items the request is
\* answered with 404 "No active stories found for this user.", not with an
\* error status, and the interactive server does not start the scrape
\* strategy for it.
C3_EmptyFeedNotFound ==
    /\ \A r \in Live :
         (req[r].pc = "done" /\ "feed" \in req[r].ev /\ req[r].storyItems = <<>>)
            => /\ req[r].resp =
                    <<Response(404, "No active stories found for this user.", <<>>)>>
               /\ "scrape" \notin req[r].ev
               /\ req[r].page = "null" /\ req[r].pageState = "none"
    /\ (deployment = "fn" /\ fn.pc = "done" /\ "feed" \in fn.ev /\ fn.storyItems = <<>>)
            => fn.resp = <<Response(404, "No active stories found for this user.", <<>>)>>

\* C3 witness: a second request reuses the cached client, gets an empty
\* feed and is answered 404.
C3_Witness ==
    \E r \in Live :
       /\ req[r].pc = "done" /\ "feed" \in req[r].ev /\ "reuse" \in req[r].ev
       /\ req[r].storyItems = <<>>
       /\ req[r].resp[1].status = 404

\* C4: in the scrape strategy a login wall reported by the probe is
\* answered with 401, and no scan of captured responses, no page-state
\* evaluation and no navigation to the stories URL runs for the request.
C4_LoginWall401 ==
    \A r \in Live :
       "loginWall" \in req[r].ev =>
          /\ req[r].ev \cap {"scan", "eval", "stories"} = {}
          /\ req[r].pc \in {"closeLogin", "closeCatch", "done"}
          /\ req[r].pc = "done" => /\ Len(req[r].resp) = 1
                                   /\ req[r].resp[1].status = 401

\* The serverless handler finds no username in the body.
FnNoUsername ==
    \/ fn.body.kind = "none"
    \/ fn.body.kind = "string" /\ ~fn.body.parses
    \/ ~fn.body.username

C6_EveryFailureFallsBack ==
    \A r \in Live :
       (req[r].credentials # NoCred /\ req[r].pc = "done"
          /\ req[r].ev \cap {"loginFailed", "apiError"} # {})
       => "scrape" \in req[r].ev

\* C6 amended: with a credential set the authenticated strategy runs
\* first; an error while resolving the account id or fetching the feed
\* leads to the scrape strategy for the same request, but a failed login is
\* answered directly with 401 and the scrape strategy is not run; with no
\* credential set the scrape strategy runs directly.
C6_FallbackOnApiError ==
    \A r \in Live :
       req[r].body.username =>
          IF req[r].credentials # NoCred
          THEN /\ req[r].ev \cap {"init", "reuse"} # {}
               /\ "scrape" \in req[r].ev <=> "apiError" \in req[r].ev
               /\ "loginFailed" \in req[r].ev =>
                     /\ req[r].pc = "done"
                     /\ req[r].resp = <<Response(401, "Failed to login to Instagram", <<>>)>>
                     /\ "scrape" \notin req[r].ev
          ELSE /\ "scrape" \in req[r].ev
               /\ req[r].ev \cap {"init", "reuse", "client", "feed", "apiError"} = {}

\* C6 witness: a request logged in, its feed call threw, and the scrape
\* strategy answered it with 200.
C6_Witness ==
    \E r \in Live :
       /\ {"init", "client", "apiError", "scrape", "page"} \subseteq req[r].ev
       /\ req[r].pc = "done"
       /\ req[r].resp[1].status = 200

\* C7: when a request that opened a browser page sends its response, close
\* has been called on that page and has resumed, on every exit path.
C7_PageClosedAtResponse ==
    \A r \in Live :
       ("page" \in req[r].ev /\ Len(req[r].resp) > 0) =>
          /\ req[r].closeCalls >= 1
          /\ req[r].pc = "done"

\* C7 witness: an error thrown after the page was opened is answered 500
\* with the page closed by the outer catch.
C7_Witness ==
    \E r \in Live :
       /\ "page" \in req[r].ev
       /\ req[r].pc = "done" /\ req[r].resp[1].status = 500
       /\ req[r].closeCalls = 1 /\ req[r].pageState = "closed"

\* Request r takes a step that removes the session file.
Removes(r) == req[r] # req'[r] /\ sessionFile # "none" /\ sessionFile' = "none"

\* The call of initInstagramClient made by request r returns in this step.
InitReturns(r) == req[r].init # {} /\ req'[r].init = {}

\* C8 as stated: when initInstagramClient has found a session file that
\* fails to parse, the file is removed by the time the call returns (the
\* fresh login being left to the next call).
C8_CorruptFileRemoved ==
    [][\A r \in Reqs :
         ("parseFailed" \in req[r].init /\ InitReturns(r)) => sessionFile' = "none"]_vars

\* C8 amended: when initInstagramClient finds a session file that fails to
\* parse, the file is left in place and a fresh credential login is called
\* at once, in the same call; from then on that call removes the file only
\* in its catch, after the login has failed, and otherwise leaves it or
\* overwrites it with the new session.
C8_CorruptFileFreshLogin ==
    [][\A r \in Reqs :
         /\ ("parseFailed" \in req'[r].init /\ "parseFailed" \notin req[r].init)
               => req'[r].pc = "login" /\ sessionFile' = sessionFile
         /\ "parseFailed" \in req'[r].init => req'[r].pc \in {"login", "writeFile", "unlink"}
         /\ ("parseFailed" \in req[r].init \cup req'[r].init /\ Removes(r))
               => req[r].pc = "unlink"
         /\ ("parseFailed" \in req[r].init /\ req[r].pc = "writeFile" /\ req[r] # req'[r])
               => sessionFile' \in {"saved", sessionFile}]_vars

\* C8 witness: the file failed to parse, the login of the same call has
\* succeeded, and the corrupt file is still in place.
C8_Witness ==
    \E r \in Live :
       /\ "parseFailed" \in req[r].init
       /\ req[r].pc = "writeFile"
       /\ sessionFile = "corrupt"

\* C9 as stated: when a loaded session is found expired, the session file
\* is deleted by the time initInstagramClient returns.
C9_ExpiredFileDeleted ==
    [][\A r \in Reqs :
         ("expired" \in req[r].init /\ InitReturns(r)) => sessionFile' = "none"]_vars

\* C9 amended: when a loaded session is found expired, login is called
\* again in the same call and the file is left in place; that call deletes
\* the file only in its catch, after the new login has failed, and
\* otherwise leaves it or overwrites it with the new session.
C9_ExpiredRelogin ==
    [][\A r \in Reqs :
         /\ ("expired" \in req'[r].init /\ "expired" \notin req[r].init)
               => /\ req[r].pc = "currentUser" /\ "loaded" \in req[r].init
                  /\ req'[r].pc = "login" /\ sessionFile' = sessionFile
         /\ "expired" \in req'[r].init => req'[r].pc \in {"login", "writeFile", "unlink"}
         /\ ("expired" \in req[r].init \cup req'[r].init /\ Removes(r))
               => req[r].pc = "unlink"
         /\ ("expired" \in req[r].init /\ req[r].pc = "writeFile" /\ req[r] # req'[r])
               => sessionFile' \in {"saved", sessionFile}]_vars

\* C9 witness: the loaded session was found expired, the new login has
\* succeeded, and the old file is still in place.
C9_Witness ==
    \E r \in Live :
       /\ "expired" \in req[r].init
       /\ req[r].pc = "writeFile"
       /\ sessionFile = "saved"

\* No request so far arrived while another was being handled.
NoOverlap == \A q \in Reqs : req[q].concurrent = {}

\* C10: in a run without overlapping requests, once a request has obtained
\* a logged-in client every later request with a credential set reuses the
\* cached client: it calls no client initialisation, so no login, no
\* session-file read and no session-file write.
C10_CachedClientReused ==
    \A r1 \in Reqs, r2 \in Live :
       (/\ deployment = "server" /\ NoOverlap
        /\ req[r1].pc = "gone" /\ "client" \in req[r1].ev
        /\ req[r2].body.username /\ req[r2].credentials # NoCred)
       => /\ "reuse" \in req[r2].ev
          /\ "init" \notin req[r2].ev /\ req[r2].init = {}
          /\ req[r2].pc \notin {"readFile", "currentUser", "login", "writeFile", "unlink"}
          /\ igClient # 0 /\ isLoggedIn

\* C10 witness: after a first request logged in, a second one with other
\* credentials was answered 200 through the cached client.
C10_Witness ==
    \E r1 \in Reqs, r2 \in Live :
       /\ NoOverlap
       /\ req[r1].pc = "gone" /\ "client" \in req[r1].ev
       /\ req[r2].credentials # NoCred
       /\ "reuse" \in req[r2].ev
       /\ req[r2].pc = "done" /\ req[r2].resp[1].status = 200

\* Request r calls getBrowser in this step (the scrape strategy starts).
CallsGetBrowser(r) == "scrape" \in req'[r].ev /\ "scrape" \notin req[r].ev

\* The launch request r awaits inside getBrowser completes in this step.
LaunchCompletes(r) == req[r].pc = "launch" /\ req'[r].pc = "newPage"

\* C11: getBrowser is not guarded against concurrent initialisation.  A
\* request that calls it while the process-wide variable is still null
\* launches a browser, also when another request's launch is pending; and
\* every completed launch adds one instance and makes the variable refer to
\* it, so the variable refers to the instance assigned last.
C11_UnguardedLaunch ==
    [][\A r \in Reqs :
         /\ (CallsGetBrowser(r) /\ browser = 0) => req'[r].pc = "launch"
         /\ LaunchCompletes(r) => /\ launched' = launched + 1
                                  /\ browser' = launched'
         /\ browser' \in 0 .. launched']_vars

\* C11 witness: two requests called getBrowser before either launch had
\* completed; both launches completed, two instances exist and the variable
\* refers to the second.
C11_Witness ==
    \E r1, r2 \in Live :
       /\ r1 # r2
       /\ "launch" \in req[r1].ev /\ "launch" \in req[r2].ev
       /\ launched = 2 /\ browser = 2

\* A heuristic step of request r that runs after the profile page has
\* loaded fails in this step.
HeuristicFails(r) ==
    \E e \in {"scanThrew", "userIdThrew", "pageInfoThrew", "storiesThrew"} :
       e \in req'[r].ev /\ e \notin req[r].ev

\* C12: in the scrape strategy a failure inside a heuristic step that runs
\* after the profile page has loaded (the scan of captured responses, the
\* user-id probe, the page-state evaluation, the stories-page navigation
\* and scan) is swallowed: the step in which it fails neither enters the
\* outer catch nor sends a response, the pipeline goes on to the next
\* heuristic; and 404 is sent by the scrape strategy only after the scan
\* and the page-state evaluation have run and recovered nothing.
C12_HeuristicFailuresSwallowed ==
    [][\A r \in Reqs :
         /\ HeuristicFails(r) =>
               /\ req'[r].pc \in {"closeApi", "userId", "pageInfo", "storiesGoto",
                                  "storiesEval", "closeFinal"}
               /\ req'[r].resp = req[r].resp
         /\ (Len(req'[r].resp) > Len(req[r].resp) /\ "scrape" \in req[r].ev
               /\ req'[r].resp[Len(req'[r].resp)].status = 404)
            => /\ {"scan", "eval"} \subseteq req[r].ev
               /\ req[r].pc = "closeFinal" /\ req[r].found = <<>>]_vars

\* C13: the media list returned from the scan of the stories page (video
\* elements, then CDN image elements, then CDN urls found in inline
\* scripts) is de-duplicated: no url occurs in it more than once, for every
\* combination of video sources, image sources and script urls.
C13_StoriesPageDeduplicated ==
    mapOut.by = "stories" =>
       \A i, j \in 1 .. Len(mapOut.urls) :
          mapOut.urls[i] = mapOut.urls[j] => i = j

\* Request r takes a step of the authenticated strategy or stands at one
\* of its awaits.
TouchesClient(r) ==
    \/ req'[r].ev \cap {"init", "reuse", "client", "loginFailed", "feed", "apiError"} # {}
    \/ req'[r].init # {}
    \/ req'[r].pc \in {"readFile", "currentUser", "login", "writeFile", "unlink",
                       "getId", "items"}
    \/ req[r] # req'[r] /\ <<igClient, isLoggedIn, sessionFile>>' # <<igClient, isLoggedIn, sessionFile>>

\* C14: in the interactive server the credential set of a request is the
\* body's pair when igUsername and igPassword are both non-empty; otherwise
\* the pair of the two environment variables when both are set, as a whole
\* (a body with only one of the fields never mixes the two sources);
\* otherwise there is none, and the request touches neither the client, the
\* session file nor the login.
C14_CredentialSelection ==
    [][\A r \in Reqs :
         LET b == req'[r].body
             c == req'[r].credentials
             fromBody == b.igUsername # "" /\ b.igPassword # ""
             fromEnv  == env.IG_USERNAME # "" /\ env.IG_PASSWORD # ""
         IN  (req'[r].pc \notin {"new", "gone"} /\ b.username) =>
               /\ fromBody => c = [username |-> b.igUsername, password |-> b.igPassword]
               /\ (~fromBody /\ fromEnv) =>
                     c = [username |-> env.IG_USERNAME, password |-> env.IG_PASSWORD]
               /\ (~fromBody /\ ~fromEnv) => (c = NoCred /\ ~TouchesClient(r))]_vars

\* C14 witness: a body with igUsername but no igPassword, both environment
\* variables set: the request logged in with the configured pair and was
\* answered 200.
C14_Witness ==
    \E r \in Live :
       /\ req[r].body.igUsername = "ok" /\ req[r].body.igPassword = ""
       /\ req[r].credentials = [username |-> "env", password |-> "env"]
       /\ {"init", "client", "feed"} \subseteq req[r].ev
       /\ req[r].pc = "done" /\ req[r].resp[1].status = 200

\* C15: in the serverless variant a failed login is answered directly, with
\* no further step: with 401 in the category chosen in this priority order
\* by the error's message (challenge_required, then bad_password, then
\* 400), and, when the message matches none of the three, with 500 carrying
\* that message.
C15_LoginFailureCategories ==
    (deployment = "fn" /\ "loginFailed" \in fn.ev) =>
       LET msg == fn.loginError
           challenge == MessageIncludes(msg, "challenge_required")
           password  == MessageIncludes(msg, "bad_password")
           generic   == MessageIncludes(msg, "400")
       IN  /\ fn.pc = "done" /\ Len(fn.resp) = 1
           /\ fn.ev = {"login", "loginFailed"}
           /\ challenge =>
                 fn.resp[1] = Response(401, "Instagram requires account verification", <<>>)
           /\ (~challenge /\ password) =>
                 fn.resp[1] = Response(401, "Invalid Instagram credentials", <<>>)
           /\ (~challenge /\ ~password /\ generic) =>
                 fn.resp[1] = Response(401, "Instagram login failed", <<>>)
           /\ (~challenge /\ ~password /\ ~generic) =>
                 /\ fn.resp[1].status = 500
                 /\ msg # "" => fn.resp[1].msg = msg

\* C15 witness: a login error whose message contains both 400 and
\* challenge_required was answered 401 as a verification challenge.
C15_Witness ==
    /\ deployment = "fn" /\ fn.pc = "done"
    /\ fn.loginError = "400 Bad Request; challenge_required"
    /\ fn.resp[1] = Response(401, "Instagram requires account verification", <<>>)

\* C16: in the scan of captured API responses the url list computed from
\* a response's reel items equals the list the authenticated strategy's
\* mapping gives for the same items, for every item list, lists with an
\* item whose image candidate list is empty included.
C16_ScanMapsAsAuthenticated ==
    mapOut.by = "scan" =>
       /\ ~mapOut.threw
       /\ mapOut.urls = mediaUrls(mapIn)

\* The url list the i-th captured response yields: that of its first path
\* if it is not empty, else that of its second path, with nothing from a
\* path whose mapping throws or that follows one.
Yield(responses, i) ==
    LET rsp == responses[i]
        m1  == scanMap(rsp.p1.items)
        m2  == scanMap(rsp.p2.items)
    IN  IF rsp.p1.has /\ m1.threw THEN <<>>
        ELSE IF rsp.p1.has /\ Len(m1.urls) > 0 THEN m1.urls
        ELSE IF rsp.p2.has /\ ~m2.threw THEN m2.urls
        ELSE <<>>

\* The list of the first response, in capture order, that yields a url.
FirstYield(responses) ==
    LET yielding == {i \in 1 .. Len(responses) : Len(Yield(responses, i)) > 0}
    IN  IF yielding = {} THEN <<>>
        ELSE Yield(responses, CHOOSE i \in yielding : \A j \in yielding : i <= j)

\* C17: in the scrape strategy the captured responses are examined in
\* capture order and the first that yields a non-empty url list decides
\* the answer: the request is answered 200 with exactly that list and
\* neither the page-state heuristics nor the stories navigation run; the
\* page-state heuristics run only when no captured response yielded a url,
\* and the stories navigation only when moreover the page-state evaluation
\* recovered no url and found a story ring.
C17_FirstYieldDecides ==
    [][/\ \A c \in Captures : storyDataFromAPI(c) = FirstYield(c)
       /\ \A r \in Reqs :
            /\ "scanFound" \in req'[r].ev =>
                  /\ req'[r].ev \cap {"eval", "stories"} = {}
                  /\ Len(req'[r].found) > 0
                  /\ req'[r].pc = "done" =>
                        req'[r].resp = <<Response(200, "success", req'[r].found)>>
            /\ "eval" \in req'[r].ev =>
                  "scan" \in req'[r].ev /\ "scanFound" \notin req'[r].ev
            /\ ("stories" \in req'[r].ev /\ "stories" \notin req[r].ev) =>
                  /\ "eval" \in req[r].ev /\ req[r].pc = "pageInfo"
                  /\ req'[r].found = <<>>]_vars

\* C18: on SIGTERM or SIGINT, after the HTTP server has closed, close has
\* been called on every browser instance launched during the life of the
\* process by the time the process exits, also when overlapping first
\* requests launched more than one browser.
C18_EveryBrowserClosed ==
    (deployment = "server" /\ shutdown = "exit") =>
       \A b \in 1 .. launched : b \in closedBrowsers

\* C19: in the interactive server the outcome of a request that carries
\* credentials depends on them: a request whose credentials would be
\* rejected at login is not served through the client an earlier request
\* logged in, so it neither reuses the cached client nor is answered from
\* the feed that client fetches.
C19_RejectedCredentialsNotServed ==
    \A r \in Live :
       (req[r].credentials # NoCred /\ ~Accepted(req[r].credentials)) =>
          /\ "reuse" \notin req[r].ev
          /\ "feed" \notin req[r].ev

\* Request r is inside its call of initInstagramClient.
InInit(r) == req[r].pc \in {"readFile", "currentUser", "login", "writeFile", "unlink"}

\* C20: whenever no request is in the middle of client initialisation,
\* isLoggedIn is true only if igClient holds a client; and a saved session
\* file is deleted by a request's initialisation only if it is the file
\* that request loaded itself, never one saved meanwhile by another
\* request's successful login.  For every interleaving of overlapping
\* requests.
C20_GlobalsAgree ==
    [][/\ (deployment = "server" /\ \A r \in Reqs : ~InInit(r)')
             => (isLoggedIn' => igClient' # 0)
       /\ \A r \in Reqs :
             (Removes(r) /\ sessionFile = "saved") => "loaded" \in req[r].init]_vars

\* The awaits of the handler: at each of them an external call is pending.
Awaits == {"readFile", "currentUser", "login", "writeFile", "unlink", "getId",
           "items", "launch", "newPage", "setup", "goto", "isLoginPage",
           "closeLogin", "closeApi", "userId", "pageInfo", "storiesGoto",
           "storiesEval", "closeStories", "closeFinal", "closeCatch"}

\* C21: for every POST to the interactive endpoint and every combination of
\* outcomes of the external calls the handler sends exactly one response:
\* never two, and never none once no external call is pending; and a
\* handler returns only after it has sent its one response.
C21_ExactlyOneResponse ==
    [][\A r \in Reqs :
         /\ Len(req'[r].resp) <= 1
         /\ Len(req'[r].resp) >= Len(req[r].resp) \/ req'[r].pc = "gone"
         /\ (req'[r].pc \notin {"new", "gone"} \cup Awaits) =>
               (req'[r].pc = "done" /\ Len(req'[r].resp) = 1)
         /\ req'[r].pc \in Awaits => Len(req'[r].resp) = 0
         /\ (req'[r].pc = "gone" /\ req[r].pc # "gone") =>
               (req[r].pc = "done" /\ Len(req[r].resp) = 1)]_vars

\* C21 witness: the authenticated strategy failed, the scrape strategy ran,
\* a page close failed and close was called again, and the request has
\* exactly one response.
C21_Witness ==
    \E r \in Live :
       /\ {"apiError", "scrape", "page"} \subseteq req[r].ev
       /\ req[r].closeCalls = 2
       /\ req[r].pc = "done" /\ Len(req[r].resp) = 1

=============================================================================
